---- MODULE Spec2Model ----
(***************************************************************************)
(* Model of the account and instruction renderers of the client generator. *)
(*                                                                         *)
(* The renderers emit TypeScript text.  The model keeps the structure of   *)
(* that text (which expression stands at which place of the emitted code)  *)
(* and gives the emitted createXInstruction function its JavaScript        *)
(* meaning, so that statements about "the key list that is built" are      *)
(* statements about running the emitted code on the caller's accounts.     *)
(*                                                                         *)
(* Names are sequences of one-character strings, so that the re-casing of  *)
(* names is computed the way the code computes it.                         *)
(***************************************************************************)
EXTENDS Integers, Sequences, FiniteSets, TLC

\* ---------------------------------------------------------------------
\* Bounds of the model
\* ---------------------------------------------------------------------
MaxSlots == 2
MaxNested == 1
MaxFields == 3
MaxArrayLen == 2

\* ---------------------------------------------------------------------
\* Names and casing
\* ---------------------------------------------------------------------
LowerCase == {"a", "b", "c", "d", "e", "f", "g", "h", "i", "j", "k", "l", "m",
              "n", "o", "p", "q", "r", "s", "t", "u", "v", "w", "x", "y", "z"}

UpperOf ==
  [c \in LowerCase |->
     CASE c = "a" -> "A" [] c = "b" -> "B" [] c = "c" -> "C" [] c = "d" -> "D"
       [] c = "e" -> "E" [] c = "f" -> "F" [] c = "g" -> "G" [] c = "h" -> "H"
       [] c = "i" -> "I" [] c = "j" -> "J" [] c = "k" -> "K" [] c = "l" -> "L"
       [] c = "m" -> "M" [] c = "n" -> "N" [] c = "o" -> "O" [] c = "p" -> "P"
       [] c = "q" -> "Q" [] c = "r" -> "R" [] c = "s" -> "S" [] c = "t" -> "T"
       [] c = "u" -> "U" [] c = "v" -> "V" [] c = "w" -> "W" [] c = "x" -> "X"
       [] c = "y" -> "Y" [] c = "z" -> "Z"]

RECURSIVE CamelFrom(_, _)
\* s.replace(/_([a-z])/g, (_, c) => c.toUpperCase()) scanning from index i
CamelFrom(s, i) ==
  IF i > Len(s) THEN <<>>
  ELSE IF s[i] = "_" /\ i < Len(s) /\ s[i + 1] \in LowerCase
       THEN <<UpperOf[s[i + 1]]>> \o CamelFrom(s, i + 2)
       ELSE <<s[i]>> \o CamelFrom(s, i + 1)

toCamelCase(s) == CamelFrom(s, 1)

\* ---------------------------------------------------------------------
\* Instruction schema (input of the instruction renderer)
\* ---------------------------------------------------------------------
\* account names of the schema, in schema casing
NameUniverse ==
  << <<"a", "_", "b">>, <<"r", "e", "n", "t">>, <<"a", "B">>, <<"x">> >>

\* the schema marks a slot optional with `optional` or with `isOptional`
OptionalMarkers ==
  { [optional |-> "false", isOptional |-> "undefined"],
    [optional |-> "undefined", isOptional |-> "true"] }

\* an entry of ix.accounts is an account or a collection of accounts; the
\* field `collection` tells which, and `accounts` holds a collection's accounts
IdlInstructionAccount(name, isMut, isSigner, marker) ==
  [collection |-> FALSE, name |-> name, isMut |-> isMut, isSigner |-> isSigner,
   optional |-> marker.optional, isOptional |-> marker.isOptional, accounts |-> <<>>]

IdlAccountsCollection(name, accounts) ==
  [collection |-> TRUE, name |-> name, isMut |-> FALSE, isSigner |-> FALSE,
   optional |-> "undefined", isOptional |-> "undefined", accounts |-> accounts]

\* whether an entry of ix.accounts is a collection
isAccountsCollection(acc) == acc.collection

CollectionName == <<"g">>

RECURSIVE SlotListsFrom(_, _)
\* slot lists of at most n slots whose names are distinct names of
\* NameUniverse from position i on, in the order of NameUniverse
SlotListsFrom(i, n) ==
  IF i > Len(NameUniverse) \/ n = 0 THEN {<<>>}
  ELSE SlotListsFrom(i + 1, n)
       \cup { <<IdlInstructionAccount(NameUniverse[i], m, sg, o)>> \o rest :
                m \in BOOLEAN, sg \in BOOLEAN, o \in OptionalMarkers,
                rest \in SlotListsFrom(i + 1, n - 1) }

\* ix.legacyOptionalAccountsStrategy: absent, false or true
LegacyFlags == {"undefined", "false", "true"}

\* slots [A required, B optional, C optional]
ExampleSlotLists ==
  { << IdlInstructionAccount(<<"a", "_", "b">>, m, FALSE,
                             [optional |-> "false", isOptional |-> "undefined"]),
       IdlInstructionAccount(<<"x">>, m, sg,
                             [optional |-> "undefined", isOptional |-> "true"]),
       IdlInstructionAccount(<<"c">>, FALSE, sg,
                             [optional |-> "undefined", isOptional |-> "true"]) >> :
      m \in BOOLEAN, sg \in BOOLEAN }

\* the account lists of the schema: a slot list of at most MaxSlots slots, or
\* one of the example lists, whose last accounts, at most MaxNested of them,
\* may stand inside a collection
AccountLists ==
  UNION { { IF nested = 0 THEN slots
            ELSE SubSeq(slots, 1, Len(slots) - nested)
                   \o <<IdlAccountsCollection(CollectionName,
                          SubSeq(slots, Len(slots) - nested + 1, Len(slots)))>> :
              nested \in {n \in 0..MaxNested : n <= Len(slots)} } :
          slots \in SlotListsFrom(1, MaxSlots) \cup ExampleSlotLists }

IdlInstructions ==
  [accounts : AccountLists, legacyOptionalAccountsStrategy : LegacyFlags, args : {<<>>}]

NoInstruction ==
  [accounts |-> <<>>, legacyOptionalAccountsStrategy |-> "none", args |-> <<>>]

\* ---------------------------------------------------------------------
\* Known pubkeys
\* ---------------------------------------------------------------------
NoKnownPubkey == "none"

\* the well-known account names and the constant each is bound to
resolveKnownPubkey(name) ==
  IF name = <<"r", "e", "n", "t">> THEN "SYSVAR_RENT_PUBKEY" ELSE NoKnownPubkey

\* the expression that reads the bound constant in the emitted code
renderKnownPubkeyAccess(knownPubkey, programIdPubkey) == knownPubkey

\* ---------------------------------------------------------------------
\* Emitted expressions
\* ---------------------------------------------------------------------
\* `accounts.<prop>` when dflt = "none", `accounts.<prop> ?? <dflt>` otherwise
PubkeyExpr(prop, dflt) == [prop |-> prop, dflt |-> dflt]

\* the literals `true` / `false`, and `accounts.<prop> != null`
BoolLiteral(b) == [kind |-> "literal", val |-> b, prop |-> <<>>]
NotNullTest(prop) == [kind |-> "notNull", val |-> FALSE, prop |-> prop]

\* (b).toString()
BoolToString(b) == BoolLiteral(b)

renderAccountMeta(pubkey, isWritable, isSigner) ==
  [pubkey |-> pubkey, isWritable |-> isWritable, isSigner |-> isSigner]

\* variant: the declared flags are emitted as they stand
renderOptionalAccountMetaStaticFlags(processedKey) ==
  LET camelName == toCamelCase(processedKey.name)
  IN  renderAccountMeta(PubkeyExpr(camelName, "programId"),
                        BoolToString(processedKey.isMut),
                        BoolToString(processedKey.isSigner))

renderOptionalAccountMetaDefaultingToProgramId(processedKey) ==
  LET camelName == toCamelCase(processedKey.name)
      pubkey == PubkeyExpr(camelName, "programId")
      mut == IF processedKey.isMut THEN NotNullTest(camelName) ELSE BoolLiteral(FALSE)
      signer == IF processedKey.isSigner THEN NotNullTest(camelName) ELSE BoolLiteral(FALSE)
  IN  renderAccountMeta(pubkey, mut, signer)

\* variant: the bound constant is never used as the default
renderRequiredAccountMetaNoKnownDefault(processedKey, programIdPubkey) ==
  renderAccountMeta(PubkeyExpr(toCamelCase(processedKey.name), "none"),
                    BoolToString(processedKey.isMut),
                    BoolToString(processedKey.isSigner))

\* variant: a known-address slot always reads its bound constant
renderRequiredAccountMetaKnownOnly(processedKey, programIdPubkey) ==
  LET camelName == toCamelCase(processedKey.name)
      pubkey == IF processedKey.knownPubkey = NoKnownPubkey
                THEN PubkeyExpr(camelName, "none")
                ELSE PubkeyExpr(<<>>,
                       renderKnownPubkeyAccess(processedKey.knownPubkey, programIdPubkey))
  IN  renderAccountMeta(pubkey, BoolToString(processedKey.isMut),
                        BoolToString(processedKey.isSigner))

renderRequiredAccountMeta(processedKey, programIdPubkey) ==
  LET camelName == toCamelCase(processedKey.name)
      pubkey == IF processedKey.knownPubkey = NoKnownPubkey
                THEN PubkeyExpr(camelName, "none")
                ELSE PubkeyExpr(camelName,
                       renderKnownPubkeyAccess(processedKey.knownPubkey, programIdPubkey))
  IN  renderAccountMeta(pubkey, BoolToString(processedKey.isMut),
                        BoolToString(processedKey.isSigner))

\* ---------------------------------------------------------------------
\* InstructionRenderer: processing the schema's accounts
\* ---------------------------------------------------------------------
\* a ?? b on the schema's optional markers
Nullish(a, b) == IF a # "undefined" THEN a ELSE b

ProcessedAccountKey(acc) ==
  [name |-> acc.name, isMut |-> acc.isMut, isSigner |-> acc.isSigner,
   isOptional |-> acc.isOptional,
   knownPubkey |-> resolveKnownPubkey(acc.name),
   optional |-> (Nullish(acc.optional, Nullish(acc.isOptional, "false")) = "true")]

\* accountName.charAt(0).toUpperCase().concat(accountName.slice(1)),
\* prefixed with `${collectionName}Item`
deriveCollectionAccountsName(accountName, collectionName) ==
  LET camelAccount ==
        IF accountName = <<>> THEN <<>>
        ELSE <<IF Head(accountName) \in LowerCase
               THEN UpperOf[Head(accountName)] ELSE Head(accountName)>>
               \o Tail(accountName)
  IN  collectionName \o <<"I", "t", "e", "m">> \o camelAccount

\* ix.accounts after processIxAccounts ran: it assigns the derived name to
\* every account of a collection, in the schema object itself
RenamedAccounts(accounts) ==
  [i \in 1..Len(accounts) |->
     IF isAccountsCollection(accounts[i])
     THEN [accounts[i] EXCEPT !.accounts =
             [j \in 1..Len(accounts[i].accounts) |->
                [accounts[i].accounts[j] EXCEPT !.name =
                   deriveCollectionAccountsName(accounts[i].accounts[j].name,
                                                accounts[i].name)]]]
     ELSE accounts[i]]

RECURSIVE FlattenAccounts(_)
\* the accounts of the list, those of a collection in the collection's place
FlattenAccounts(accounts) ==
  IF accounts = <<>> THEN <<>>
  ELSE (IF isAccountsCollection(Head(accounts))
        THEN Head(accounts).accounts ELSE <<Head(accounts)>>)
       \o FlattenAccounts(Tail(accounts))

processIxAccounts(instruction) ==
  LET flat == FlattenAccounts(RenamedAccounts(instruction.accounts))
  IN  [i \in 1..Len(flat) |-> ProcessedAccountKey(flat[i])]

\* processedKeys.findIndex((x) => x.optional), 0 standing for -1
IndexOfFirstOptional(processedKeys) ==
  IF \E i \in DOMAIN processedKeys : processedKeys[i].optional
  THEN CHOOSE i \in DOMAIN processedKeys :
         /\ processedKeys[i].optional
         /\ \A j \in 1..(i - 1) : ~processedKeys[j].optional
  ELSE 0

\* ---------------------------------------------------------------------
\* InstructionRenderer: the emitted key list
\* ---------------------------------------------------------------------
ProgramIdPubkey == "new web3.PublicKey(programId)"

\* variant: the array reads every slot from the caller's accounts alone
renderAccountKeysInsideArrayCallerOnly(processedKeys) ==
  [i \in 1..Len(processedKeys) |->
     renderAccountMeta(PubkeyExpr(toCamelCase(processedKeys[i].name), "none"),
                       BoolToString(processedKeys[i].isMut),
                       BoolToString(processedKeys[i].isSigner))]

\* the literal `[ meta, meta, ... ]`
renderAccountKeysInsideArray(processedKeys) ==
  [i \in 1..Len(processedKeys) |->
     renderRequiredAccountMeta(processedKeys[i], ProgramIdPubkey)]

\* `keys.push(meta)`
PushStatement(meta) ==
  [guarded |-> FALSE, guard |-> <<>>, required |-> <<>>, meta |-> meta,
   providing |-> <<>>, needs |-> <<>>]

\* `if (accounts.<guard> != null) { if (<required> == null || ...) { throw ... }
\*    keys.push(meta) }`; providing and needs are the names inside the message
GuardedPushStatement(guard, required, meta, providing, needs) ==
  [guarded |-> TRUE, guard |-> guard, required |-> required, meta |-> meta,
   providing |-> providing, needs |-> needs]

\* variant: the earlier optional slots are taken from slice(1, idx)
renderAccountKeyToPushSkippingFirst(processedKeys, idx) ==
  LET processedKey == processedKeys[idx]
      camelName == toCamelCase(processedKey.name)
      requiredOptionals ==
        SelectSeq(SubSeq(processedKeys, 2, idx - 1), LAMBDA x : x.optional)
      requiredChecks ==
        [i \in 1..Len(requiredOptionals) |-> toCamelCase(requiredOptionals[i].name)]
      accountMeta == renderAccountMeta(PubkeyExpr(camelName, "none"),
                                       BoolToString(processedKey.isMut),
                                       BoolToString(processedKey.isSigner))
  IN  IF ~processedKey.optional
      THEN PushStatement(renderRequiredAccountMeta(processedKey, ProgramIdPubkey))
      ELSE GuardedPushStatement(camelName, requiredChecks, accountMeta,
                                camelName, requiredChecks)

renderAccountKeyToPush(processedKeys, idx) ==
  LET processedKey == processedKeys[idx]
      camelName == toCamelCase(processedKey.name)
      requiredOptionals ==
        SelectSeq(SubSeq(processedKeys, 1, idx - 1), LAMBDA x : x.optional)
      requiredChecks ==
        [i \in 1..Len(requiredOptionals) |-> toCamelCase(requiredOptionals[i].name)]
      pubkey == PubkeyExpr(camelName, "none")
      accountMeta == renderAccountMeta(pubkey, BoolToString(processedKey.isMut),
                                       BoolToString(processedKey.isSigner))
  IN  IF ~processedKey.optional
      THEN PushStatement(renderRequiredAccountMeta(processedKey, ProgramIdPubkey))
      ELSE GuardedPushStatement(camelName, requiredChecks, accountMeta,
                                camelName, requiredChecks)

renderAccountKeysToPush(processedKeys) ==
  [idx \in 1..Len(processedKeys) |-> renderAccountKeyToPush(processedKeys, idx)]

\* variant: the first optional slot is put into the fixed array
renderAccountKeysNotDefaultingOptionalsOffByOne(processedKeys) ==
  LET indexOfFirstOptional == IndexOfFirstOptional(processedKeys)
  IN  IF indexOfFirstOptional = 0
      THEN [inside |-> renderAccountKeysInsideArray(processedKeys), push |-> <<>>]
      ELSE [inside |-> renderAccountKeysInsideArray(
                         SubSeq(processedKeys, 1, indexOfFirstOptional)),
            push   |-> renderAccountKeysToPush(
                         SubSeq(processedKeys, indexOfFirstOptional + 1,
                                Len(processedKeys)))]

renderAccountKeysNotDefaultingOptionals(processedKeys) ==
  LET indexOfFirstOptional == IndexOfFirstOptional(processedKeys)
  IN  IF indexOfFirstOptional = 0
      THEN [inside |-> renderAccountKeysInsideArray(processedKeys), push |-> <<>>]
      ELSE [inside |-> renderAccountKeysInsideArray(
                         SubSeq(processedKeys, 1, indexOfFirstOptional - 1)),
            push   |-> renderAccountKeysToPush(
                         SubSeq(processedKeys, indexOfFirstOptional, Len(processedKeys)))]

\* variant: optional slots are left out of the array
renderAccountKeysDefaultingOptionalsDropped(processedKeys) ==
  LET kept == SelectSeq(processedKeys, LAMBDA x : ~x.optional)
  IN  [inside |-> [i \in 1..Len(kept) |->
                     renderRequiredAccountMeta(kept[i], ProgramIdPubkey)],
       push   |-> <<>>]

renderAccountKeysDefaultingOptionals(processedKeys) ==
  [inside |-> [i \in 1..Len(processedKeys) |->
                 IF processedKeys[i].optional
                 THEN renderOptionalAccountMetaDefaultingToProgramId(processedKeys[i])
                 ELSE renderRequiredAccountMeta(processedKeys[i], ProgramIdPubkey)],
   push   |-> <<>>]

\* variant: the loop over accounts.anchorRemainingAccounts is never emitted
renderIxAccountKeysWithoutRemaining(processedKeys, defaultOptionalAccounts, renderAnchorRemainingAccounts) ==
  LET fixedAccountKeys ==
        IF defaultOptionalAccounts
        THEN renderAccountKeysDefaultingOptionals(processedKeys)
        ELSE renderAccountKeysNotDefaultingOptionals(processedKeys)
  IN  [inside |-> fixedAccountKeys.inside,
       push   |-> fixedAccountKeys.push,
       anchorRemainingAccounts |-> FALSE]

\* variant: optional slots are defaulted whatever the renderer's flag says
renderIxAccountKeysAlwaysDefaulting(processedKeys, defaultOptionalAccounts, renderAnchorRemainingAccounts) ==
  LET fixedAccountKeys == renderAccountKeysDefaultingOptionals(processedKeys)
  IN  [inside |-> fixedAccountKeys.inside,
       push   |-> fixedAccountKeys.push,
       anchorRemainingAccounts |->
         renderAnchorRemainingAccounts /\ Len(processedKeys) > 0]

renderIxAccountKeys(processedKeys, defaultOptionalAccounts, renderAnchorRemainingAccounts) ==
  LET fixedAccountKeys ==
        IF defaultOptionalAccounts
        THEN renderAccountKeysDefaultingOptionals(processedKeys)
        ELSE renderAccountKeysNotDefaultingOptionals(processedKeys)
  IN  [inside |-> fixedAccountKeys.inside,
       push   |-> fixedAccountKeys.push,
       \* whether the loop pushing accounts.anchorRemainingAccounts is emitted
       anchorRemainingAccounts |->
         renderAnchorRemainingAccounts /\ Len(processedKeys) > 0]

\* variant: every property of the accounts type carries the `?` mark
renderAccountsTypeAllOptional(processedKeys) ==
  [i \in 1..Len(processedKeys) |->
     [propName |-> toCamelCase(processedKeys[i].name), optional |-> TRUE]]

\* the properties of the emitted accounts type; optional is the `?` mark
renderAccountsType(processedKeys) ==
  [i \in 1..Len(processedKeys) |->
     [propName |-> toCamelCase(processedKeys[i].name),
      optional |-> IF processedKeys[i].knownPubkey # NoKnownPubkey
                   THEN TRUE ELSE processedKeys[i].optional]]

\* whether the accounts type has the property anchorRemainingAccounts
renderAccountsTypeRemaining(processedKeys, renderAnchorRemainingAccounts) ==
  Len(processedKeys) > 0 /\ renderAnchorRemainingAccounts

\* ---------------------------------------------------------------------
\* Meaning of the emitted createInstruction function
\* ---------------------------------------------------------------------
\* public keys at run time
CallerKey(prop) == [src |-> "caller", id |-> prop]
ProgramIdValue == [src |-> "programId", id |-> <<>>]
KnownValue(exp) == [src |-> "known", id |-> <<exp>>]
UndefinedKey == [src |-> "undefined", id |-> <<>>]

\* accounts.<prop>
Prop(accounts, prop) ==
  IF prop \in DOMAIN accounts THEN accounts[prop] ELSE UndefinedKey

EvalPubkey(e, accounts) ==
  LET v == Prop(accounts, e.prop)
  IN  IF e.dflt = "none" \/ v # UndefinedKey THEN v
      ELSE IF e.dflt = "programId" THEN ProgramIdValue
      ELSE KnownValue(e.dflt)

EvalBool(e, accounts) ==
  IF e.kind = "literal" THEN e.val ELSE Prop(accounts, e.prop) # UndefinedKey

EvalMeta(meta, accounts) ==
  [pubkey |-> EvalPubkey(meta.pubkey, accounts),
   isWritable |-> EvalBool(meta.isWritable, accounts),
   isSigner |-> EvalBool(meta.isSigner, accounts)]

NoMessage == [providing |-> <<>>, needs |-> <<>>]

\* outcome of the statements that build `keys`: fixedKeys is `keys` when the
\* statements derived from the slots have run, keys is `keys` at the end
KeysBuilt(fixedKeys, keys) ==
  [threw |-> FALSE, fixedKeys |-> fixedKeys, keys |-> keys, message |-> NoMessage]
KeysThrew(providing, needs) ==
  [threw |-> TRUE, fixedKeys |-> <<>>, keys |-> <<>>,
   message |-> [providing |-> providing, needs |-> needs]]

RECURSIVE ExecPush(_, _, _, _)
\* runs the emitted push statements from statement i on; a throw ends the call
ExecPush(statements, i, accounts, keys) ==
  IF i > Len(statements) THEN KeysBuilt(keys, keys)
  ELSE LET st == statements[i]
       IN  IF ~st.guarded
           THEN ExecPush(statements, i + 1, accounts,
                         Append(keys, EvalMeta(st.meta, accounts)))
           ELSE IF Prop(accounts, st.guard) = UndefinedKey
           THEN ExecPush(statements, i + 1, accounts, keys)
           ELSE IF \E j \in DOMAIN st.required :
                     Prop(accounts, st.required[j]) = UndefinedKey
           THEN KeysThrew(st.providing, st.needs)
           ELSE ExecPush(statements, i + 1, accounts,
                         Append(keys, EvalMeta(st.meta, accounts)))

\* `const keys = <inside> <push statements> <remaining accounts loop>`
ExecKeys(code, accounts, anchorRemainingAccounts) ==
  LET inside == [i \in 1..Len(code.inside) |-> EvalMeta(code.inside[i], accounts)]
      pushed == ExecPush(code.push, 1, accounts, inside)
  IN  IF pushed.threw THEN pushed
      ELSE IF code.anchorRemainingAccounts
      THEN KeysBuilt(pushed.fixedKeys, pushed.fixedKeys \o anchorRemainingAccounts)
      ELSE pushed

\* ---------------------------------------------------------------------
\* Account schema (input of the account renderer)
\* ---------------------------------------------------------------------
FieldNameUniverse ==
  << <<"m", "y", "_", "v", "a", "l">>, <<"p", "a", "d", "d", "i", "n", "g">>,
     <<"r", "s", "v">>, <<"n">> >>

PrimitiveType(p) == [kind |-> "primitive", inner |-> p, size |-> 0]
\* { array: [inner, size] }
ArrayType(inner, size) == [kind |-> "array", inner |-> inner, size |-> size]
\* { vec: inner }
VecType(inner) == [kind |-> "vec", inner |-> inner, size |-> 0]

\* { defined: name }
DefinedType(name) == [kind |-> "defined", inner |-> name, size |-> 0]

\* a scalar enum the schema defines, and a name the schema defines nowhere
ScalarEnumType == DefinedType("Side")
UnknownType == DefinedType("Missing")

FieldTypes ==
  {PrimitiveType("u8"), VecType("u8"), ScalarEnumType, UnknownType}
    \cup {ArrayType(inner, n) : inner \in {"u8", "u16"}, n \in 1..MaxArrayLen}

\* attrs is the field's attribute list
IdlField(name, type, attrs) == [name |-> name, type |-> type, attrs |-> attrs]

RECURSIVE FieldListsFrom(_, _)
\* field lists of at most n fields whose names are distinct names of
\* FieldNameUniverse from position i on, in the order of FieldNameUniverse
FieldListsFrom(i, n) ==
  IF i > Len(FieldNameUniverse) \/ n = 0 THEN {<<>>}
  ELSE FieldListsFrom(i + 1, n)
       \cup { <<IdlField(FieldNameUniverse[i], ty, attrs)>> \o rest :
                ty \in FieldTypes, attrs \in {{}, {"padding"}},
                rest \in FieldListsFrom(i + 1, n - 1) }

\* an argument of an instruction
IdlArg(name, type) == [name |-> name, type |-> type]

ArgTypes == {PrimitiveType("u8"), VecType("u8"), ScalarEnumType}

RECURSIVE ArgListsFrom(_, _)
\* argument lists of at most n arguments, named like the fields above
ArgListsFrom(i, n) ==
  IF i > Len(FieldNameUniverse) \/ n = 0 THEN {<<>>}
  ELSE ArgListsFrom(i + 1, n)
       \cup { <<IdlArg(FieldNameUniverse[i], ty)>> \o rest :
                ty \in ArgTypes, rest \in ArgListsFrom(i + 1, n - 1) }

\* instructions that take arguments and no accounts
IdlInstructionsWithArgs ==
  [accounts : {<<>>}, legacyOptionalAccountsStrategy : {"undefined"},
   args : ArgListsFrom(1, MaxFields) \ {<<>>}]

AccountName == <<"V", "a", "u", "l", "t">>

\* a second account, of one field at most
OtherAccountName == <<"p", "o", "o", "l">>

\* hasType: account.type is set; hasFields: account.type.fields is an array
IdlAccounts ==
  {[name |-> AccountName, hasType |-> TRUE, hasFields |-> TRUE, fields |-> fs] :
     fs \in FieldListsFrom(1, MaxFields)}
  \cup {[name |-> OtherAccountName, hasType |-> TRUE, hasFields |-> TRUE, fields |-> fs] :
          fs \in FieldListsFrom(Len(FieldNameUniverse), 1)}
  \cup {[name |-> n, hasType |-> t, hasFields |-> FALSE, fields |-> <<>>] :
          n \in {AccountName, OtherAccountName}, t \in BOOLEAN}

NoAccount == [name |-> <<>>, hasType |-> FALSE, hasFields |-> FALSE, fields |-> <<>>]

\* whether the field carries the padding attribute
hasPaddingAttr(f) == "padding" \in f.attrs

\* narrows a type to an array type; any other type is an error
isIdlTypeArray(ty) == ty.kind = "array"

\* ---------------------------------------------------------------------
\* AccountRenderer: construction
\* ---------------------------------------------------------------------
NoPaddingField == [present |-> FALSE, name |-> <<>>, size |-> 0]
PaddingField(name, size) == [present |-> TRUE, name |-> name, size |-> size]

\* an error message is a text, a sequence of pieces; no error is the empty text
NoError == <<>>

Returned(value) == [threw |-> FALSE, error |-> NoError, value |-> value]
Thrown(error) == [threw |-> TRUE, error |-> error, value |-> NoPaddingField]

\* `Account ${name} is missing a type or fields array in the IDL.`
ErrMissingFields(name) ==
  <<"Account ">> \o name \o <<" is missing a type or fields array in the IDL.">>
ErrOnePadding == <<"only one field of an account can be padding">>
ErrNotArray == <<"not an array type">>
ErrNotU8 == <<"padding field must be u8[]">>

\* variant: the message does not say which account
getPaddingFieldUnnamedError(acc) ==
  IF ~acc.hasType \/ ~acc.hasFields THEN Thrown(ErrMissingFields(<<>>))
  ELSE LET paddingField == SelectSeq(acc.fields, hasPaddingAttr)
       IN  IF Len(paddingField) = 0 THEN Returned(NoPaddingField)
           ELSE IF Len(paddingField) # 1 THEN Thrown(ErrOnePadding)
           ELSE LET field == paddingField[1]
                IN  IF ~isIdlTypeArray(field.type) THEN Thrown(ErrNotArray)
                    ELSE IF field.type.inner # "u8" THEN Thrown(ErrNotU8)
                    ELSE Returned(PaddingField(field.name, field.type.size))

\* variant: the first padding field is taken, however many there are
getPaddingFieldFirstOfMany(acc) ==
  IF ~acc.hasType \/ ~acc.hasFields THEN Thrown(ErrMissingFields(acc.name))
  ELSE LET paddingField == SelectSeq(acc.fields, hasPaddingAttr)
       IN  IF Len(paddingField) = 0 THEN Returned(NoPaddingField)
           ELSE LET field == paddingField[1]
                IN  IF ~isIdlTypeArray(field.type) THEN Thrown(ErrNotArray)
                    ELSE IF field.type.inner # "u8" THEN Thrown(ErrNotU8)
                    ELSE Returned(PaddingField(field.name, field.type.size))

\* variant: the element type of the padding array is not checked
getPaddingFieldAnyElement(acc) ==
  IF ~acc.hasType \/ ~acc.hasFields THEN Thrown(ErrMissingFields(acc.name))
  ELSE LET paddingField == SelectSeq(acc.fields, hasPaddingAttr)
       IN  IF Len(paddingField) = 0 THEN Returned(NoPaddingField)
           ELSE IF Len(paddingField) # 1 THEN Thrown(ErrOnePadding)
           ELSE LET field == paddingField[1]
                IN  IF ~isIdlTypeArray(field.type) THEN Thrown(ErrNotArray)
                    ELSE Returned(PaddingField(field.name, field.type.size))

getPaddingField(acc) ==
  IF ~acc.hasType \/ ~acc.hasFields THEN Thrown(ErrMissingFields(acc.name))
  ELSE LET paddingField == SelectSeq(acc.fields, hasPaddingAttr)
       IN  IF Len(paddingField) = 0 THEN Returned(NoPaddingField)
           ELSE IF Len(paddingField) # 1 THEN Thrown(ErrOnePadding)
           ELSE LET field == paddingField[1]
                IN  IF ~isIdlTypeArray(field.type) THEN Thrown(ErrNotArray)
                    ELSE IF field.type.inner # "u8" THEN Thrown(ErrNotU8)
                    ELSE Returned(PaddingField(field.name, field.type.size))

\* ---------------------------------------------------------------------
\* AccountRenderer: rendered fields
\* ---------------------------------------------------------------------
\* the display type the type mapper yields for a type; "undefined" when it
\* yields none
TypeMapperMap(ty) ==
  IF ty.kind = "primitive" THEN "number"
  ELSE IF ty.kind = "defined"
       THEN (IF ty = UnknownType THEN "undefined" ELSE ty.inner)
       ELSE "number[]"

getTypedFields(acc) ==
  [i \in 1..Len(acc.fields) |->
     LET field == acc.fields[i]
         tsType == TypeMapperMap(field.type)
     IN  [name |-> toCamelCase(field.name),
          tsType |-> IF tsType = "undefined" THEN "any" ELSE tsType,
          isPadding |-> hasPaddingAttr(field)]]

\* `${f.name}: this.${f.name}`
PrettyFieldText(f) == f.name \o <<":", " ", "t", "h", "i", "s", ".">> \o f.name

\* Boolean(text) of a string
Truthy(text) == Len(text) > 0

\* each entry keeps the property it lists next to its text
getPrettyFields(acc) ==
  LET typedFields == getTypedFields(acc)
      entries == [i \in 1..Len(typedFields) |->
                    [name |-> typedFields[i].name, text |-> PrettyFieldText(typedFields[i])]]
  IN  SelectSeq(entries, LAMBDA e : Truthy(e.text))

NotPadding(f) == ~f.isPadding

\* the members of `export type <Name>Args = { ... }`
renderAccountDataArgsType(fields) ==
  LET argsFields == SelectSeq(fields, NotPadding)
  IN  [i \in 1..Len(argsFields) |->
         [name |-> argsFields[i].name, tsType |-> argsFields[i].tsType]]

\* `readonly <name>: <tsType>` parameters of the class constructor
renderConstructorArgs(fields) ==
  LET kept == SelectSeq(fields, NotPadding)
  IN  [i \in 1..Len(kept) |-> [name |-> kept[i].name, tsType |-> kept[i].tsType]]

\* variant: fromArgs passes every field
renderConstructorParamsAllFields(fields) ==
  [i \in 1..Len(fields) |-> fields[i].name]

\* `args.<name>` arguments fromArgs passes to the constructor
renderConstructorParams(fields) ==
  LET kept == SelectSeq(fields, NotPadding)
  IN  [i \in 1..Len(kept) |-> kept[i].name]

renderAccountDataClass(acc, fields) ==
  [constructorArgs |-> renderConstructorArgs(fields),
   constructorParams |-> renderConstructorParams(fields),
   prettyFields |-> getPrettyFields(acc)]

\* ---------------------------------------------------------------------
\* AccountRenderer: serialized value and discriminator
\* ---------------------------------------------------------------------
AccountDiscriminatorKey ==
  <<"a", "c", "c", "o", "u", "n", "t", "D", "i", "s", "c", "r", "i", "m", "i", "n",
    "a", "t", "o", "r">>

PaddingKey == <<"p", "a", "d", "d", "i", "n", "g">>

\* the value of `Array(size).fill(0)`
ZeroFilled(size) == [i \in 1..size |-> 0]

\* the first 8 bytes of sha256("account:" + name); the digest is kept as
\* the text it is taken of, so that two digests agree exactly when the
\* digested texts agree
accountDiscriminator(name) ==
  [sha256 |-> <<"a", "c", "c", "o", "u", "n", "t", ":">> \o name, bytes |-> 8]

\* name.charAt(0).toLowerCase().concat(name.slice(1))
camelAccountName(name) ==
  IF name # <<>> /\ \E c \in LowerCase : UpperOf[c] = name[1]
  THEN <<CHOOSE c \in LowerCase : UpperOf[c] = name[1]>> \o Tail(name)
  ELSE name

NoDiscriminatorVar == [declared |-> FALSE, value |-> [sha256 |-> <<>>, bytes |-> 0]]

\* variant: the digest is taken of the re-cased name of the constant
renderAccountDiscriminatorVarOfCamelName(acc, hasImplicitDiscriminator) ==
  IF ~hasImplicitDiscriminator THEN NoDiscriminatorVar
  ELSE [declared |-> TRUE, value |-> accountDiscriminator(camelAccountName(acc.name))]

\* `export const <name>Discriminator = [...]`, or nothing
renderAccountDiscriminatorVar(acc, hasImplicitDiscriminator) ==
  IF ~hasImplicitDiscriminator THEN NoDiscriminatorVar
  ELSE [declared |-> TRUE, value |-> accountDiscriminator(acc.name)]

\* one `key: value` entry of an emitted object literal; value is the
\* discriminator constant or an array of numbers
DiscriminatorEntry ==
  [key |-> AccountDiscriminatorKey, discriminator |-> TRUE, array |-> <<>>]
ArrayEntry(key, array) == [key |-> key, discriminator |-> FALSE, array |-> array]

\* the object literal handed to serialize: its entries, then `...this`;
\* entries is empty when the value is plain `this`
renderSerializeValue(hasImplicitDiscriminator, paddingField) ==
  LET discriminator == IF hasImplicitDiscriminator THEN <<DiscriminatorEntry>> ELSE <<>>
      padding == IF paddingField.present
                 THEN <<ArrayEntry(PaddingKey, ZeroFilled(paddingField.size))>>
                 ELSE <<>>
  IN  [entries |-> discriminator \o padding, spread |-> "this"]

\* ---------------------------------------------------------------------
\* TypeMapper: the usages one pass records
\* ---------------------------------------------------------------------
\* the usage state of a TypeMapper; unresolved tells what mapping a type
\* the schema defines nowhere does: it throws ("error"), or it yields no
\* type ("undefined")
TypeMapper(unresolved) ==
  [usedFixableSerde |-> FALSE, scalarEnumsUsed |-> {}, importsUsed |-> {},
   unresolved |-> unresolved]

NoTypeMapper == TypeMapper("error")

clearUsages(typeMapper) ==
  [typeMapper EXCEPT !.usedFixableSerde = FALSE, !.scalarEnumsUsed = {},
                     !.importsUsed = {}]

\* a type whose serialized size depends on the value
isFixableType(ty) == ty.kind = "vec"

\* the usages TypeMapper.map records for a type
TypeMapperMapUsages(typeMapper, ty) ==
  IF ty.kind = "defined" /\ ty # UnknownType
  THEN [typeMapper EXCEPT !.scalarEnumsUsed = @ \cup {ty.inner},
                          !.importsUsed = @ \cup {ty.inner}]
  ELSE typeMapper

\* the usages TypeMapper.mapSerdeField records for a field of that type
TypeMapperMapSerdeUsages(typeMapper, ty) ==
  IF isFixableType(ty) THEN [typeMapper EXCEPT !.usedFixableSerde = TRUE]
  ELSE IF ty.kind = "defined" /\ ty # UnknownType
  THEN [typeMapper EXCEPT !.importsUsed = @ \cup {ty.inner}]
  ELSE typeMapper

\* the names of the fields TypeMapper.mapSerdeFields yields: those it is given
TypeMapperMapSerdeFields(fields) == [i \in 1..Len(fields) |-> fields[i].name]

\* the type of the 8 byte discriminator field: { array: ['u8', 8] }
anchorDiscriminatorType == ArrayType("u8", 8)

NoType == PrimitiveType("none")

\* one use of the TypeMapper by a renderer: op is the member used, ty the
\* type handed to it, at the method of the renderer that uses it
Use(op, ty, at) == [op |-> op, ty |-> ty, at |-> at]

ResolverCalls == {"map", "mapSerdeField"}
UsageReads == {"scalarEnumsUsed", "importsUsed", "usedFixableSerde"}

RECURSIVE RunUses(_, _, _, _)
\* the TypeMapper after the uses from position i on, with what each read
\* saw; a resolver call that throws ends the pass
RunUses(typeMapper, uses, i, reads) ==
  IF i > Len(uses)
  THEN [typeMapper |-> typeMapper, threw |-> FALSE, made |-> uses, reads |-> reads]
  ELSE LET use == uses[i]
       IN  IF use.op = "clearUsages"
           THEN RunUses(clearUsages(typeMapper), uses, i + 1, reads)
           ELSE IF use.op \in ResolverCalls
           THEN IF use.ty = UnknownType /\ typeMapper.unresolved = "error"
                THEN [typeMapper |-> typeMapper, threw |-> TRUE,
                      made |-> SubSeq(uses, 1, i), reads |-> reads]
                ELSE RunUses(IF use.op = "map"
                             THEN TypeMapperMapUsages(typeMapper, use.ty)
                             ELSE TypeMapperMapSerdeUsages(typeMapper, use.ty),
                             uses, i + 1, reads)
           ELSE RunUses(typeMapper, uses, i + 1,
                        Append(reads, [op |-> use.op, at |-> use.at,
                                       usedFixableSerde |-> typeMapper.usedFixableSerde,
                                       scalarEnumsUsed |-> typeMapper.scalarEnumsUsed,
                                       importsUsed |-> typeMapper.importsUsed]))

\* what the read made by method `at` saw
ReadAt(reads, op, at) ==
  reads[CHOOSE k \in DOMAIN reads : reads[k].op = op /\ reads[k].at = at]

\* ---------------------------------------------------------------------
\* AccountRenderer.render: its uses of the TypeMapper, in program order
\* ---------------------------------------------------------------------
\* typeMapper.map(field.type) for each field
MapFields(fields, at) == [i \in 1..Len(fields) |-> Use("map", fields[i].type, at)]

\* typeMapper.mapSerdeFields(fields)
MapSerdeFields(fields, at) ==
  [i \in 1..Len(fields) |-> Use("mapSerdeField", fields[i].type, at)]

\* variant: render does not clear the usages first
AccountRenderUsesNotCleared(acc, hasImplicitDiscriminator) ==
  MapFields(acc.fields, "getTypedFields")
    \o MapSerdeFields(acc.fields, "serdeProcess")
    \o <<Use("scalarEnumsUsed", NoType, "render"),
         Use("importsUsed", NoType, "renderImports")>>
    \o MapFields(acc.fields, "getPrettyFields")
    \o <<Use("usedFixableSerde", NoType, "renderByteSizeMethods")>>
    \o (IF hasImplicitDiscriminator
        THEN <<Use("mapSerdeField", anchorDiscriminatorType, "renderBeet"),
               Use("map", anchorDiscriminatorType, "renderBeet")>>
        ELSE <<>>)
    \o <<Use("usedFixableSerde", NoType, "renderBeet")>>

AccountRenderUses(acc, hasImplicitDiscriminator) ==
  <<Use("clearUsages", NoType, "render")>>
    \o MapFields(acc.fields, "getTypedFields")
    \o MapSerdeFields(acc.fields, "serdeProcess")
    \o <<Use("scalarEnumsUsed", NoType, "render"),
         Use("importsUsed", NoType, "renderImports")>>
    \o MapFields(acc.fields, "getPrettyFields")
    \o <<Use("usedFixableSerde", NoType, "renderByteSizeMethods")>>
    \o (IF hasImplicitDiscriminator
        THEN <<Use("mapSerdeField", anchorDiscriminatorType, "renderBeet"),
               Use("map", anchorDiscriminatorType, "renderBeet")>>
        ELSE <<>>)
    \o <<Use("usedFixableSerde", NoType, "renderBeet")>>

\* ---------------------------------------------------------------------
\* InstructionRenderer.render: arguments and uses of the TypeMapper
\* ---------------------------------------------------------------------
\* the member of `export type <Ix>InstructionArgs` for one argument
renderIxArgField(arg) ==
  [name |-> toCamelCase(arg.name), tsType |-> TypeMapperMap(arg.type)]

renderIxArgsType(instruction) ==
  [i \in 1..Len(instruction.args) |-> renderIxArgField(instruction.args[i])]

\* the arguments renderDataStruct hands on: camel-cased fields and isFixable
renderDataStruct(instruction, usedFixableSerde) ==
  LET args == TypeMapperMapSerdeFields(instruction.args)
  IN  [fields |-> [i \in 1..Len(args) |-> toCamelCase(args[i])],
       isFixable |-> usedFixableSerde]

InstructionRenderUses(instruction) ==
  <<Use("clearUsages", NoType, "render")>>
    \o MapFields(instruction.args, "renderIxArgField")
    \o MapSerdeFields(instruction.args, "serdeProcess")
    \o <<Use("mapSerdeField", anchorDiscriminatorType, "renderDataStruct"),
         Use("map", anchorDiscriminatorType, "renderDataStruct"),
         Use("usedFixableSerde", NoType, "renderDataStruct"),
         Use("scalarEnumsUsed", NoType, "render"),
         Use("importsUsed", NoType, "renderImports")>>

\* ---------------------------------------------------------------------
\* AccountRenderer: byte size and struct descriptor
\* ---------------------------------------------------------------------
NoValue == [entries |-> <<>>, spread |-> "none"]

\* variant: the constant members are emitted whatever was recorded
renderByteSizeMethodsAlwaysConstant(usedFixableSerde, hasImplicitDiscriminator) ==
  [byteSizeOfArgs |-> FALSE, byteSizeGetter |-> TRUE, hasCorrectByteSize |-> TRUE,
   byteSizeValue |-> NoValue]

\* variant: byteSize(args) measures the plain instance
renderByteSizeMethodsOfInstance(usedFixableSerde, hasImplicitDiscriminator) ==
  IF usedFixableSerde
  THEN [byteSizeOfArgs |-> TRUE, byteSizeGetter |-> FALSE, hasCorrectByteSize |-> FALSE,
        byteSizeValue |-> [entries |-> <<>>, spread |-> "instance"]]
  ELSE [byteSizeOfArgs |-> FALSE, byteSizeGetter |-> TRUE, hasCorrectByteSize |-> TRUE,
        byteSizeValue |-> NoValue]

\* which byte size members the class has, and the value byteSize(args)
\* measures: `{ accountDiscriminator: ..., ...instance }` or `instance`
renderByteSizeMethods(usedFixableSerde, hasImplicitDiscriminator) ==
  IF usedFixableSerde
  THEN [byteSizeOfArgs |-> TRUE, byteSizeGetter |-> FALSE, hasCorrectByteSize |-> FALSE,
        byteSizeValue |->
          [entries |-> IF hasImplicitDiscriminator THEN <<DiscriminatorEntry>> ELSE <<>>,
           spread |-> "instance"]]
  ELSE [byteSizeOfArgs |-> FALSE, byteSizeGetter |-> TRUE, hasCorrectByteSize |-> TRUE,
        byteSizeValue |-> NoValue]

serdeProcess(acc) == TypeMapperMapSerdeFields(acc.fields)

NoBeet == [fields |-> <<>>, discriminatorField |-> FALSE, paddingField |-> NoPaddingField,
           isFixable |-> FALSE]

\* the arguments renderBeet hands to renderDataStruct
renderBeet(fields, hasImplicitDiscriminator, paddingField, usedFixableSerde) ==
  [fields |-> fields, discriminatorField |-> hasImplicitDiscriminator,
   paddingField |-> paddingField, isFixable |-> usedFixableSerde]

\* ---------------------------------------------------------------------
\* State
\* ---------------------------------------------------------------------
VARIABLES
  pc,         \* where the current render pass stands
  ix,         \* InstructionRenderer.ix
  ixRenderer, \* the other fields of the InstructionRenderer
  ixCode,     \* what InstructionRenderer.render emitted
  call,       \* one call of the emitted createInstruction: arguments and outcome
  result,     \* keys built by that call, or the error it threw
  account,    \* AccountRenderer.account
  accRenderer,\* the other fields of the AccountRenderer
  accError,   \* the error the account pass threw, NoError when none
  accCode,    \* what AccountRenderer.render emitted
  typeMapper, \* the TypeMapper of the current pass
  passUses    \* the uses the current pass made of its TypeMapper, and its reads

ixVars == <<ix, ixRenderer, ixCode, call, result>>
accVars == <<account, accRenderer, accError, accCode>>
tmVars == <<typeMapper, passUses>>
vars == <<pc, ix, ixRenderer, ixCode, call, result, account, accRenderer, accError, accCode,
          typeMapper, passUses>>

NoRenderer == [defaultOptionalAccounts |-> FALSE, renderAnchorRemainingAccounts |-> FALSE]
NoDataStruct == [fields |-> <<>>, isFixable |-> FALSE]
NoCode == [processedKeys |-> <<>>, accountsType |-> <<>>, accountsTypeRemaining |-> FALSE,
           keys |-> [inside |-> <<>>, push |-> <<>>, anchorRemainingAccounts |-> FALSE],
           argsType |-> <<>>, dataStruct |-> NoDataStruct,
           enums |-> {}, imports |-> {}]
NoCall == [accounts |-> <<>>, anchorRemainingAccounts |-> <<>>]
NoResult == KeysBuilt(<<>>, <<>>)

\* what a caller may pass as anchorRemainingAccounts: nothing, or two metas
RemainingMeta(n) ==
  [pubkey |-> [src |-> "remaining", id |-> <<n>>], isWritable |-> FALSE, isSigner |-> FALSE]
RemainingChoices == { <<>>, <<RemainingMeta("r1"), RemainingMeta("r2")>> }

NoAccountRenderer == [hasImplicitDiscriminator |-> FALSE, paddingField |-> NoPaddingField]
NoAccountCode == [rendered |-> FALSE, argsType |-> <<>>,
                  dataClass |-> [constructorArgs |-> <<>>, constructorParams |-> <<>>,
                                 prettyFields |-> <<>>],
                  serializeValue |-> [entries |-> <<>>, spread |-> "this"],
                  discriminatorVar |-> NoDiscriminatorVar,
                  byteSize |-> renderByteSizeMethods(FALSE, FALSE),
                  beet |-> NoBeet,
                  enums |-> {}, imports |-> {}]
NoUses == [made |-> <<>>, reads |-> <<>>]

Init ==
  /\ pc = "idle"
  /\ account = NoAccount
  /\ accRenderer = NoAccountRenderer
  /\ accError = NoError
  /\ accCode = NoAccountCode
  /\ ix = NoInstruction
  /\ ixRenderer = NoRenderer
  /\ ixCode = NoCode
  /\ call = NoCall
  /\ result = NoResult
  /\ typeMapper = NoTypeMapper
  /\ passUses = NoUses

\* renderInstruction up to new InstructionRenderer(ix, ..., typeMapper,
\* renderAnchorRemainingAccounts): a TypeMapper of its own, then the renderer
NewInstructionRendererOf(instructions) ==
  /\ pc = "idle"
  /\ \E instruction \in instructions, remaining \in BOOLEAN :
       /\ ix' = instruction
       /\ ixRenderer' =
            [defaultOptionalAccounts |-> ~(instruction.legacyOptionalAccountsStrategy = "true"),
             renderAnchorRemainingAccounts |-> remaining]
  /\ typeMapper' = TypeMapper("error")
  /\ passUses' = NoUses
  /\ pc' = "ixConstructed"
  /\ UNCHANGED <<ixCode, call, result, accVars>>

NewInstructionRenderer ==
  NewInstructionRendererOf(IdlInstructions \cup IdlInstructionsWithArgs)

\* the same for an instruction that takes arguments and no accounts
NewArgsInstructionRenderer == NewInstructionRendererOf(IdlInstructionsWithArgs)

\* InstructionRenderer.render()
RenderInstruction ==
  /\ pc = "ixConstructed"
  /\ LET processedKeys == processIxAccounts(ix)
         run == RunUses(typeMapper, InstructionRenderUses(ix), 1, <<>>)
     IN  /\ ixCode' =
              [processedKeys |-> processedKeys,
               accountsType |-> renderAccountsType(processedKeys),
               accountsTypeRemaining |->
                 renderAccountsTypeRemaining(processedKeys,
                                             ixRenderer.renderAnchorRemainingAccounts),
               keys |-> renderIxAccountKeys(processedKeys,
                                            ixRenderer.defaultOptionalAccounts,
                                            ixRenderer.renderAnchorRemainingAccounts),
               argsType |-> renderIxArgsType(ix),
               dataStruct |->
                 renderDataStruct(ix, ReadAt(run.reads, "usedFixableSerde",
                                             "renderDataStruct").usedFixableSerde),
               enums |-> ReadAt(run.reads, "scalarEnumsUsed", "render").scalarEnumsUsed,
               imports |-> ReadAt(run.reads, "importsUsed", "renderImports").importsUsed]
         /\ typeMapper' = run.typeMapper
         /\ passUses' = [made |-> run.made, reads |-> run.reads]
  /\ ix' = [ix EXCEPT !.accounts = RenamedAccounts(ix.accounts)]
  /\ pc' = "ixRendered"
  /\ UNCHANGED <<ixRenderer, call, result, accVars>>

\* a caller runs the emitted create<Ix>Instruction(accounts)
CreateInstruction ==
  /\ pc = "ixRendered"
  /\ LET props == {ixCode.accountsType[i].propName : i \in DOMAIN ixCode.accountsType}
     IN  \E supplied \in SUBSET props,
            remaining \in (IF ixCode.accountsTypeRemaining
                           THEN RemainingChoices ELSE {<<>>}) :
           /\ call' = [accounts |-> [p \in props |->
                                       IF p \in supplied THEN CallerKey(p) ELSE UndefinedKey],
                       anchorRemainingAccounts |-> remaining]
           /\ result' = ExecKeys(ixCode.keys, call'.accounts, remaining)
  /\ pc' = "ixCalled"
  /\ UNCHANGED <<ix, ixRenderer, ixCode, accVars, tmVars>>

\* what mapping a type the schema defines nowhere may do, for an account
\* that has a field of such a type
UnresolvedOutcomes(acc) ==
  IF \E i \in DOMAIN acc.fields : acc.fields[i].type = UnknownType
  THEN {"error", "undefined"} ELSE {"error"}

\* renderAccount up to new AccountRenderer(account, ..., hasImplicitDiscriminator,
\* ..., typeMapper, ...): a TypeMapper of its own, then the renderer, whose
\* constructor throws what getPaddingField throws
NewAccountRenderer ==
  /\ pc = "idle"
  /\ \E acc \in IdlAccounts, hasImplicitDiscriminator \in BOOLEAN :
       \E unresolved \in UnresolvedOutcomes(acc) :
         LET padding == getPaddingField(acc)
         IN  /\ account' = acc
             /\ typeMapper' = TypeMapper(unresolved)
             /\ IF padding.threw
                THEN /\ pc' = "accFailed"
                     /\ accError' = padding.error
                     /\ accRenderer' = NoAccountRenderer
                ELSE /\ pc' = "accConstructed"
                     /\ accError' = NoError
                     /\ accRenderer' =
                          [hasImplicitDiscriminator |-> hasImplicitDiscriminator,
                           paddingField |-> padding.value]
  /\ passUses' = NoUses
  /\ UNCHANGED <<ixVars, accCode>>

\* the error of a resolver call that throws
ErrUnresolved == <<"type is not defined">>

\* AccountRenderer.render(); a resolver call that throws ends it with
\* nothing rendered
RenderAccount ==
  /\ pc = "accConstructed"
  /\ LET typedFields == getTypedFields(account)
         run == RunUses(typeMapper,
                        AccountRenderUses(account, accRenderer.hasImplicitDiscriminator),
                        1, <<>>)
     IN  /\ typeMapper' = run.typeMapper
         /\ passUses' = [made |-> run.made, reads |-> run.reads]
         /\ IF run.threw
            THEN /\ pc' = "accRenderFailed"
                 /\ accError' = ErrUnresolved
                 /\ accCode' = accCode
            ELSE /\ pc' = "accRendered"
                 /\ accError' = accError
                 /\ accCode' =
                      [rendered |-> TRUE,
                       argsType |-> renderAccountDataArgsType(typedFields),
                       dataClass |-> renderAccountDataClass(account, typedFields),
                       serializeValue |->
                         renderSerializeValue(accRenderer.hasImplicitDiscriminator,
                                              accRenderer.paddingField),
                       discriminatorVar |->
                         renderAccountDiscriminatorVar(account,
                                                       accRenderer.hasImplicitDiscriminator),
                       byteSize |->
                         renderByteSizeMethods(
                           ReadAt(run.reads, "usedFixableSerde",
                                  "renderByteSizeMethods").usedFixableSerde,
                           accRenderer.hasImplicitDiscriminator),
                       beet |->
                         renderBeet(serdeProcess(account),
                                    accRenderer.hasImplicitDiscriminator,
                                    accRenderer.paddingField,
                                    ReadAt(run.reads, "usedFixableSerde",
                                           "renderBeet").usedFixableSerde),
                       enums |-> ReadAt(run.reads, "scalarEnumsUsed", "render").scalarEnumsUsed,
                       imports |->
                         ReadAt(run.reads, "importsUsed", "renderImports").importsUsed]
  /\ UNCHANGED <<ixVars, account, accRenderer>>

\* the pass is over: renderer, TypeMapper and emitted text are dropped, and
\* the next renderInstruction or renderAccount starts from nothing
PassDone ==
  /\ pc \in {"ixRendered", "ixCalled", "accFailed", "accRendered", "accRenderFailed"}
  /\ pc' = "idle"
  /\ account' = NoAccount
  /\ accRenderer' = NoAccountRenderer
  /\ accError' = NoError
  /\ accCode' = NoAccountCode
  /\ ix' = NoInstruction
  /\ ixRenderer' = NoRenderer
  /\ ixCode' = NoCode
  /\ call' = NoCall
  /\ result' = NoResult
  /\ typeMapper' = NoTypeMapper
  /\ passUses' = NoUses

Next ==
  \/ NewInstructionRenderer
  \/ RenderInstruction
  \/ CreateInstruction
  \/ NewAccountRenderer
  \/ RenderAccount
  \/ PassDone

Spec == Init /\ [][Next]_vars

\* the passes over instructions alone, and the passes over accounts alone
NextInstruction ==
  \/ NewInstructionRenderer
  \/ RenderInstruction
  \/ CreateInstruction
  \/ PassDone

NextAccount ==
  \/ NewAccountRenderer
  \/ RenderAccount
  \/ PassDone

SpecInstruction == Init /\ [][NextInstruction]_vars

SpecAccount == Init /\ [][NextAccount]_vars

\* the render passes of both kinds, without the calls of the emitted code
NextPasses ==
  \/ NewArgsInstructionRenderer
  \/ RenderInstruction
  \/ NewAccountRenderer
  \/ RenderAccount
  \/ PassDone

SpecPasses == Init /\ [][NextPasses]_vars

\* =====================================================================
\* Properties of the emitted key list
\* =====================================================================
\* the emitted createInstruction has been called
Called == pc = "ixCalled"

\* the policy the schema selects
OmitPolicy == ix.legacyOptionalAccountsStrategy = "true"

\* the slots of the instruction, in schema order
SlotList == FlattenAccounts(ix.accounts)

Slots == DOMAIN SlotList

\* the schema marks slot i optional
SlotOptional(i) ==
  \/ SlotList[i].optional = "true"
  \/ SlotList[i].optional = "undefined" /\ SlotList[i].isOptional = "true"

\* the property of the accounts argument that belongs to slot i
SlotProp(i) == toCamelCase(SlotList[i].name)

\* the caller passed a value for slot i
Supplied(i) == call.accounts[SlotProp(i)] # UndefinedKey

SlotKnown(i) == resolveKnownPubkey(SlotList[i].name) # NoKnownPubkey

\* no supplied optional slot follows an unsupplied optional slot
SuppliedOptionalsArePrefix ==
  \A i, j \in Slots :
    (i < j /\ SlotOptional(i) /\ SlotOptional(j) /\ Supplied(j)) => Supplied(i)

\* the entry the schema and the caller's accounts call for at slot i
SlotEntry(i) ==
  [pubkey |-> IF Supplied(i) THEN CallerKey(SlotProp(i))
              ELSE IF SlotKnown(i) THEN KnownValue(resolveKnownPubkey(SlotList[i].name))
              ELSE UndefinedKey,
   isWritable |-> SlotList[i].isMut,
   isSigner |-> SlotList[i].isSigner]

\* the slots that stay when the unsupplied optional slots are removed
KeptSlots == {i \in Slots : ~SlotOptional(i) \/ Supplied(i)}

\* where slot i stands among the kept slots
KeptPosition(i) == Cardinality({j \in KeptSlots : j <= i})

\* where the entry of slot i stands in the key list under the policy in force
EntryPosition(i) == IF OmitPolicy THEN KeptPosition(i) ELSE i

\* C1: under the omit-trailing-optionals policy, a call that supplies an
\* optional slot while an earlier optional slot is not supplied throws
\* instead of returning a key list.
C1_LaterOptionalWithoutEarlierThrows ==
  (Called /\ OmitPolicy /\ ~SuppliedOptionalsArePrefix)
    => (result.threw /\ result.keys = <<>>)

\* slots [A required, B optional, C optional], A and C supplied, B absent
C1_Witness ==
  /\ Called /\ OmitPolicy /\ Len(SlotList) = 3
  /\ ~SlotOptional(1) /\ SlotOptional(2) /\ SlotOptional(3)
  /\ Supplied(1) /\ ~Supplied(2) /\ Supplied(3)
  /\ result.threw

\* C2: under the omit-trailing-optionals policy, when the supplied optional
\* slots form a prefix of the optional slots the call does not throw and the
\* key list is the slot sequence without the unsupplied optional slots, in
\* schema order.
C2_PrefixSuppliedGivesSlotsInOrder ==
  (Called /\ OmitPolicy /\ SuppliedOptionalsArePrefix)
    => /\ ~result.threw
       /\ Len(result.fixedKeys) = Cardinality(KeptSlots)
       /\ \A i \in KeptSlots : result.fixedKeys[KeptPosition(i)] = SlotEntry(i)

\* [optional absent, required supplied]: the required slot is the one entry
C2_Witness ==
  /\ Called /\ OmitPolicy /\ Len(SlotList) = 2
  /\ SlotOptional(1) /\ ~SlotOptional(2)
  /\ ~Supplied(1) /\ Supplied(2)
  /\ ~result.threw /\ Len(result.fixedKeys) = 1
  /\ result.fixedKeys[1].pubkey = CallerKey(SlotProp(2))

\* [A required, B optional, C optional] with A and B supplied: two entries
C2_WitnessExample ==
  /\ Called /\ OmitPolicy /\ Len(SlotList) = 3
  /\ ~SlotOptional(1) /\ SlotOptional(2) /\ SlotOptional(3)
  /\ Supplied(1) /\ Supplied(2) /\ ~Supplied(3)
  /\ ~result.threw /\ Len(result.fixedKeys) = 2

\* C3: under the default-to-constant policy the entry of an optional slot
\* is {programId, not writable, not signer} when the slot is not supplied,
\* and {supplied value, declared isMut, declared isSigner} when it is.
C3_OptionalDefaultsToProgramId ==
  (Called /\ ~OmitPolicy /\ ~result.threw /\ Len(result.fixedKeys) = Len(SlotList))
    => \A i \in Slots :
         SlotOptional(i) =>
           result.fixedKeys[i] =
             IF Supplied(i)
             THEN [pubkey |-> CallerKey(SlotProp(i)),
                   isWritable |-> SlotList[i].isMut,
                   isSigner |-> SlotList[i].isSigner]
             ELSE [pubkey |-> ProgramIdValue, isWritable |-> FALSE, isSigner |-> FALSE]

\* an unsupplied optional slot declared writable and signer, next to a
\* supplied optional slot
C3_Witness ==
  /\ Called /\ ~OmitPolicy
  /\ \E i, j \in Slots :
       /\ SlotOptional(i) /\ ~Supplied(i)
       /\ SlotList[i].isMut /\ SlotList[i].isSigner
       /\ result.fixedKeys[i].pubkey = ProgramIdValue
       /\ SlotOptional(j) /\ Supplied(j) /\ SlotList[j].isMut

\* C4: under the default-to-constant policy no call throws, the key list
\* built from the slots has one entry per slot, and entry i is the entry of
\* slot i.
C4_DefaultPolicyFixedPositions ==
  (Called /\ ~OmitPolicy)
    => /\ ~result.threw
       /\ Len(result.fixedKeys) = Len(SlotList)
       /\ \A i \in Slots :
            result.fixedKeys[i].pubkey =
              IF Supplied(i) THEN CallerKey(SlotProp(i))
              ELSE IF SlotOptional(i) THEN ProgramIdValue
              ELSE SlotEntry(i).pubkey

\* three slots, an absent optional slot before a supplied one
C4_Witness ==
  /\ Called /\ ~OmitPolicy /\ Len(SlotList) = 3
  /\ SlotOptional(2) /\ ~Supplied(2) /\ SlotOptional(3) /\ Supplied(3)
  /\ Len(result.fixedKeys) = 3

\* C5 as claimed: every known-address slot that is not supplied, optional or
\* not, appears in the key list that is built with its bound constant.
C5_KnownSlotAlwaysResolvesToConstant ==
  (Called /\ ~result.threw)
    => \A i \in Slots :
         (SlotKnown(i) /\ ~Supplied(i))
           => \E k \in DOMAIN result.fixedKeys :
                result.fixedKeys[k].pubkey =
                  KnownValue(resolveKnownPubkey(SlotList[i].name))

\* C5 amended: under both policies, a known-address slot that is not marked
\* optional and is not supplied stands in every key list that is built, at
\* its place, with its bound constant as pubkey.
C5_RequiredKnownSlotResolvesToConstant ==
  (Called /\ ~result.threw)
    => \A i \in Slots :
         (SlotKnown(i) /\ ~SlotOptional(i) /\ ~Supplied(i))
           => /\ EntryPosition(i) \in DOMAIN result.fixedKeys
              /\ result.fixedKeys[EntryPosition(i)].pubkey =
                   KnownValue(resolveKnownPubkey(SlotList[i].name))

\* omit policy: an unsupplied known slot pushed after an absent optional slot
C5_Witness ==
  /\ Called /\ OmitPolicy /\ ~result.threw
  /\ \E i, j \in Slots :
       /\ i < j /\ SlotOptional(i) /\ ~Supplied(i)
       /\ SlotKnown(j) /\ ~SlotOptional(j) /\ ~Supplied(j)
       /\ result.fixedKeys[EntryPosition(j)].pubkey = KnownValue("SYSVAR_RENT_PUBKEY")

\* C6: under both policies, when the caller supplies a value for a
\* known-address slot, the accounts type lets the caller pass it and the
\* slot's entry in the key list that is built carries the caller's value,
\* not the bound constant.
C6_CallerOverridesKnownAddress ==
  (Called /\ ~result.threw)
    => \A i \in Slots :
         (SlotKnown(i) /\ Supplied(i))
           => /\ EntryPosition(i) \in DOMAIN result.fixedKeys
              /\ result.fixedKeys[EntryPosition(i)].pubkey = CallerKey(SlotProp(i))
              /\ result.fixedKeys[EntryPosition(i)].pubkey #
                   KnownValue(resolveKnownPubkey(SlotList[i].name))
              /\ \E t \in DOMAIN ixCode.accountsType :
                   ixCode.accountsType[t].propName = SlotProp(i)

\* a supplied, non-optional known slot under the default-to-constant policy
C6_Witness ==
  /\ Called /\ ~OmitPolicy /\ ~result.threw
  /\ \E i \in Slots :
       /\ SlotKnown(i) /\ ~SlotOptional(i) /\ Supplied(i)
       /\ result.fixedKeys[i].pubkey = CallerKey(SlotProp(i))

\* =====================================================================
\* Properties of the account wrapper
\* =====================================================================
\* an account with a field array has been given to the constructor
AccountGiven == pc \in {"accFailed", "accConstructed", "accRendered", "accRenderFailed"}
AccountHasFields == AccountGiven /\ account.hasType /\ account.hasFields

\* the fields the schema marks as padding
PaddingMarked == {i \in DOMAIN account.fields : "padding" \in account.fields[i].attrs}

\* the schema names of the fields that are not padding, re-cased, in order
RECURSIVE NonPaddingNames(_)
NonPaddingNames(fields) ==
  IF fields = <<>> THEN <<>>
  ELSE IF "padding" \in Head(fields).attrs THEN NonPaddingNames(Tail(fields))
  ELSE <<toCamelCase(Head(fields).name)>> \o NonPaddingNames(Tail(fields))

NamesOf(entries) == [i \in DOMAIN entries |-> entries[i].name]

Occurrences(names, n) == Cardinality({k \in DOMAIN names : names[k] = n})

\* C7: constructing the wrapper of an account with two or more padding
\* fields fails in the constructor, and nothing is rendered; with no or one
\* padding field the one-padding-field check does not fail.
C7_TwoPaddingFieldsFailConstruction ==
  AccountHasFields
    => /\ Cardinality(PaddingMarked) >= 2
            => (pc = "accFailed" /\ accError = ErrOnePadding /\ ~accCode.rendered)
       /\ Cardinality(PaddingMarked) <= 1 => accError # ErrOnePadding

\* two padding fields, both well typed: the constructor has thrown
C7_Witness ==
  /\ pc = "accFailed" /\ accError = ErrOnePadding
  /\ Cardinality(PaddingMarked) = 2
  /\ \A i \in PaddingMarked : account.fields[i].type = ArrayType("u8", 1)

\* C8: with exactly one padding field, construction fails unless the
\* field's type is a fixed-length array of u8; when it is, of length n, the
\* recorded padding descriptor is {name of the field, size n}.
C8_PaddingFieldMustBeU8Array ==
  (AccountHasFields /\ Cardinality(PaddingMarked) = 1)
    => LET field == account.fields[CHOOSE i \in PaddingMarked : TRUE]
       IN  IF field.type.kind = "array" /\ field.type.inner = "u8"
           THEN /\ pc \in {"accConstructed", "accRendered", "accRenderFailed"}
                /\ accError \in {NoError, ErrUnresolved}
                /\ accRenderer.paddingField =
                     [present |-> TRUE, name |-> field.name, size |-> field.type.size]
           ELSE /\ pc = "accFailed"
                /\ accError \in {ErrNotArray, ErrNotU8}
                /\ ~accCode.rendered

\* a padding field [u8; 2] recorded with size 2
C8_Witness ==
  /\ pc = "accConstructed"
  /\ Cardinality(PaddingMarked) = 1
  /\ accRenderer.paddingField.present
  /\ accRenderer.paddingField.size = 2

\* a padding field [u16; n] rejected by the constructor
C8_WitnessRejected ==
  /\ pc = "accFailed" /\ accError = ErrNotU8 /\ Cardinality(PaddingMarked) = 1

\* C9: the args type, the constructor parameters and the fromArgs arguments
\* list the non-padding fields, each once and in schema order, and never
\* the padding field.
C9_PaddingNotInArgs ==
  pc = "accRendered"
    => LET expected == NonPaddingNames(account.fields)
           lists == { NamesOf(accCode.argsType),
                      NamesOf(accCode.dataClass.constructorArgs),
                      accCode.dataClass.constructorParams }
       IN  \A names \in lists :
             /\ names = expected
             /\ \A i \in DOMAIN account.fields :
                  Occurrences(names, toCamelCase(account.fields[i].name)) =
                    IF i \in PaddingMarked THEN 0 ELSE 1

\* a padding field between two other fields
C9_Witness ==
  /\ pc = "accRendered" /\ Len(account.fields) = 3
  /\ PaddingMarked = {2}
  /\ Len(accCode.argsType) = 2
  /\ Len(accCode.dataClass.constructorParams) = 2

\* C10 as claimed: the fields listed by pretty() are the non-padding fields.
C10_PaddingNotInPretty ==
  pc = "accRendered"
    => {accCode.dataClass.prettyFields[k].name :
          k \in DOMAIN accCode.dataClass.prettyFields}
         = {NonPaddingNames(account.fields)[k] :
              k \in DOMAIN NonPaddingNames(account.fields)}

\* C11 as claimed: for a padding field p of length n the serialized value
\* binds the padding field's own name p to an array of n zeros, whatever
\* the field is called.
C11_PaddingSerializedUnderOwnName ==
  (pc = "accRendered" /\ accRenderer.paddingField.present)
    => \E k \in DOMAIN accCode.serializeValue.entries :
         /\ accCode.serializeValue.entries[k].key = accRenderer.paddingField.name
         /\ ~accCode.serializeValue.entries[k].discriminator
         /\ accCode.serializeValue.entries[k].array
              = ZeroFilled(accRenderer.paddingField.size)

\* the pass recorded a fixable type while it resolved the account's fields
FixableFieldResolved ==
  \E i \in DOMAIN account.fields : isFixableType(account.fields[i].type)

\* C12: in one account pass, when a fixable type was recorded while the
\* fields were resolved the class has byteSize(args) only (no constant
\* byteSize getter, no hasCorrectByteSize) and the struct descriptor is
\* fixable; when none was, the class has the constant getter and the
\* descriptor is not fixable. The byte size members and the descriptor
\* always agree.
C12_ByteSizeShapeFollowsFixable ==
  pc = "accRendered"
    => /\ accCode.byteSize.byteSizeOfArgs = FixableFieldResolved
       /\ accCode.byteSize.byteSizeGetter = ~FixableFieldResolved
       /\ accCode.byteSize.hasCorrectByteSize = ~FixableFieldResolved
       /\ accCode.beet.isFixable = FixableFieldResolved
       /\ accCode.beet.isFixable = accCode.byteSize.byteSizeOfArgs

\* a vec field and an implicit discriminator, whose type is resolved
\* between the two reads of usedFixableSerde
C12_Witness ==
  /\ pc = "accRendered" /\ FixableFieldResolved
  /\ accRenderer.hasImplicitDiscriminator
  /\ accCode.byteSize.byteSizeOfArgs /\ accCode.beet.isFixable
  /\ \E k \in DOMAIN passUses.made :
       passUses.made[k] = Use("mapSerdeField", anchorDiscriminatorType, "renderBeet")

\* the resolver calls a pass has made, as positions of its uses
ResolverCallsMade == {k \in DOMAIN passUses.made : passUses.made[k].op \in ResolverCalls}

\* C13: in a pass of either kind clearUsages is the first use made of the
\* TypeMapper, before every resolver call, and what the pass reads of the
\* usage state was recorded by resolver calls of this same pass.
C13_UsagesClearedBeforeFirstResolverCall ==
  /\ passUses.made # <<>> => passUses.made[1].op = "clearUsages"
  /\ \A k \in ResolverCallsMade :
       \E j \in 1..(k - 1) : passUses.made[j].op = "clearUsages"
  /\ \A r \in DOMAIN passUses.reads :
       LET read == passUses.reads[r]
       IN  /\ read.usedFixableSerde
                => \E k \in ResolverCallsMade :
                     /\ passUses.made[k].op = "mapSerdeField"
                     /\ isFixableType(passUses.made[k].ty)
           /\ read.scalarEnumsUsed \cup read.importsUsed
                \subseteq {passUses.made[k].ty.inner : k \in ResolverCallsMade}

\* an account pass that resolved a scalar enum field and read it back
C13_Witness ==
  /\ pc = "accRendered"
  /\ passUses.made[1].op = "clearUsages"
  /\ ResolverCallsMade # {}
  /\ accCode.enums = {ScalarEnumType.inner}

\* an instruction pass that resolved a vec argument
C13_WitnessInstruction ==
  /\ pc = "ixRendered"
  /\ passUses.made[1].op = "clearUsages"
  /\ ixCode.dataStruct.isFixable

\* whether text holds the name as consecutive pieces
Contains(text, name) ==
  \E i \in 1..(Len(text) - Len(name) + 1) : SubSeq(text, i, i + Len(name) - 1) = name

\* C14: for an account without a type or without a fields array the
\* constructor fails with an error that names the account; the TypeMapper
\* has neither been cleared nor called, and nothing is rendered.
C14_MissingFieldsFailsConstruction ==
  (AccountGiven /\ (~account.hasType \/ ~account.hasFields))
    => /\ pc = "accFailed"
       /\ accError # NoError
       /\ Contains(accError, account.name)
       /\ passUses = NoUses
       /\ ~accCode.rendered

\* the account pool with a type that has no fields array
C14_Witness ==
  /\ pc = "accFailed"
  /\ account.name = OtherAccountName /\ account.hasType /\ ~account.hasFields
  /\ Contains(accError, OtherAccountName)

\* C15: the discriminator constant an account pass emits is the digest of
\* "account:" followed by the account's name as the schema spells it, and
\* of nothing else; without an implicit discriminator none is emitted.
C15_DiscriminatorIsFunctionOfSchemaName ==
  pc = "accRendered"
    => IF accRenderer.hasImplicitDiscriminator
       THEN /\ accCode.discriminatorVar.declared
            /\ accCode.discriminatorVar.value =
                 [sha256 |-> <<"a", "c", "c", "o", "u", "n", "t", ":">> \o account.name,
                  bytes |-> 8]
       ELSE ~accCode.discriminatorVar.declared

\* the account Vault, whose constant is named after the re-cased vault
C15_Witness ==
  /\ pc = "accRendered" /\ accRenderer.hasImplicitDiscriminator
  /\ account.name = AccountName
  /\ camelAccountName(account.name) # account.name
  /\ accCode.discriminatorVar.declared
  /\ Len(account.fields) = 2

\* an instruction renderer exists
InstructionGiven == pc \in {"ixConstructed", "ixRendered", "ixCalled"}

\* the account metas of the emitted key list, wherever they stand
EmittedMetas ==
  {ixCode.keys.inside[k] : k \in DOMAIN ixCode.keys.inside}
    \cup {ixCode.keys.push[k].meta : k \in DOMAIN ixCode.keys.push}

\* C16: the renderer's policy is the omit policy exactly when the schema
\* sets legacyOptionalAccountsStrategy, and the default policy otherwise,
\* from construction on; the emitted key list treats every optional slot by
\* that one policy: under the default policy each stands in the fixed array
\* with the program id as fallback and nothing is pushed, under the omit
\* policy each is pushed under a guard and no entry falls back to the
\* program id.
C16_OnePolicyPerInstruction ==
  InstructionGiven
    => /\ ixRenderer.defaultOptionalAccounts = ~OmitPolicy
       /\ pc \in {"ixRendered", "ixCalled"}
            => IF OmitPolicy
               THEN /\ \A meta \in EmittedMetas : meta.pubkey.dflt # "programId"
                    /\ \A i \in Slots :
                         SlotOptional(i)
                           => \E k \in DOMAIN ixCode.keys.push :
                                /\ ixCode.keys.push[k].guarded
                                /\ ixCode.keys.push[k].guard = SlotProp(i)
               ELSE /\ ixCode.keys.push = <<>>
                    /\ Len(ixCode.keys.inside) = Len(SlotList)
                    /\ \A i \in Slots :
                         SlotOptional(i) <=> ixCode.keys.inside[i].pubkey.dflt = "programId"

\* the flag present and false, with an optional slot: the default policy
C16_Witness ==
  /\ pc = "ixRendered"
  /\ ix.legacyOptionalAccountsStrategy = "false"
  /\ \E i \in Slots : SlotOptional(i)
  /\ ixCode.keys.push = <<>>

\* the flag set, with two optional slots: both pushed under guards
C16_WitnessOmit ==
  /\ pc = "ixRendered" /\ OmitPolicy
  /\ Cardinality({i \in Slots : SlotOptional(i)}) = 2
  /\ Len(ixCode.keys.push) = 2

\* C17 as claimed: the value byteSize(args) measures for a fixable account
\* holds the caller's values, the discriminator when it is implicit, and
\* for a padding field an array of as many zeros as the field is long.
C17_ByteSizeValueCarriesPadding ==
  (pc = "accRendered" /\ accCode.byteSize.byteSizeOfArgs)
    => LET value == accCode.byteSize.byteSizeValue
       IN  /\ value.spread = "instance"
           /\ accRenderer.hasImplicitDiscriminator
                => \E k \in DOMAIN value.entries : value.entries[k].discriminator
           /\ accRenderer.paddingField.present
                => \E k \in DOMAIN value.entries :
                     /\ ~value.entries[k].discriminator
                     /\ value.entries[k].array = ZeroFilled(accRenderer.paddingField.size)

\* C18 as claimed: within one pass no resolver call follows a read of the
\* usage state (importsUsed, scalarEnumsUsed, usedFixableSerde).
C18_ReadsFollowAllResolverCalls ==
  \A j \in DOMAIN passUses.made, k \in DOMAIN passUses.made :
    (j < k /\ passUses.made[j].op \in UsageReads)
      => passUses.made[k].op \notin ResolverCalls

\* the display types the account pass emitted for the fields
EmittedFieldTypes ==
  {accCode.argsType[k].tsType : k \in DOMAIN accCode.argsType}
    \cup {accCode.dataClass.constructorArgs[k].tsType :
            k \in DOMAIN accCode.dataClass.constructorArgs}

\* C19 as claimed: when the resolver yields no display type for a field of
\* the account, the pass ends with an error and nothing is rendered; the
\* type any is never emitted.
C19_UnresolvedFieldStopsRender ==
  /\ (AccountHasFields /\ pc # "accConstructed"
        /\ \E i \in DOMAIN account.fields : TypeMapperMap(account.fields[i].type) = "undefined")
       => (pc \in {"accFailed", "accRenderFailed"} /\ accError # NoError /\ ~accCode.rendered)
  /\ "any" \notin EmittedFieldTypes

\* the names of the slots as the schema spells them
SchemaSlotNames == {SlotList[i].name : i \in Slots}

\* C20 as claimed: under the omit policy the names inside the message of
\* the configuration error are slot names in the schema's spelling.
C20_ErrorMessageKeepsSchemaCasing ==
  (Called /\ result.threw)
    => /\ result.message.providing \in SchemaSlotNames
       /\ \A k \in DOMAIN result.message.needs :
            result.message.needs[k] \in SchemaSlotNames

\* C21 as claimed: InstructionRenderer.render leaves the instruction of
\* the schema as it was, the names of the accounts inside a collection
\* included.
C21_RenderLeavesSchemaUnchanged ==
  [][pc = "ixConstructed" => ix' = ix]_vars

\* the entries of a key list that come from anchorRemainingAccounts
RemainingEntries(keys) == SelectSeq(keys, LAMBDA meta : meta.pubkey.src = "remaining")

\* C22: when the renderer renders remaining accounts and the instruction
\* has a slot, a call that builds its key list appends the caller's
\* anchorRemainingAccounts, in the caller's order, behind all the keys of
\* the slots, under either policy; a call that throws appends nothing; an
\* instruction without slots, or a renderer that does not render remaining
\* accounts, appends nothing.
C22_RemainingAccountsAppendedLast ==
  Called
    => IF result.threw THEN result.keys = <<>>
       ELSE /\ RemainingEntries(result.fixedKeys) = <<>>
            /\ IF ixRenderer.renderAnchorRemainingAccounts /\ Len(SlotList) > 0
               THEN result.keys = result.fixedKeys \o call.anchorRemainingAccounts
               ELSE /\ result.keys = result.fixedKeys
                    /\ ~ixCode.keys.anchorRemainingAccounts

\* the omit policy with an optional slot left out, and two remaining
\* accounts behind the one key that is left
C22_Witness ==
  /\ Called /\ ~result.threw /\ OmitPolicy
  /\ Len(SlotList) = 2 /\ Len(result.fixedKeys) = 1
  /\ Len(call.anchorRemainingAccounts) = 2
  /\ result.keys = result.fixedKeys \o call.anchorRemainingAccounts

\* the default policy with remaining accounts behind two keys
C22_WitnessDefault ==
  /\ Called /\ ~result.threw /\ ~OmitPolicy
  /\ Len(result.fixedKeys) = 2
  /\ RemainingEntries(result.keys) = call.anchorRemainingAccounts
  /\ Len(call.anchorRemainingAccounts) = 2

\* the outcome of the call had the instruction been rendered under the
\* default policy (TRUE) or under the omit policy (FALSE)
ResultUnder(defaultOptionalAccounts) ==
  ExecKeys(renderIxAccountKeys(ixCode.processedKeys, defaultOptionalAccounts,
                               ixRenderer.renderAnchorRemainingAccounts),
           call.accounts, call.anchorRemainingAccounts)

NoOptionalSlot == \A i \in Slots : ~SlotOptional(i)

\* C23: for an instruction without optional slots the key list a call
\* builds is the same under the omit policy and under the default policy,
\* whatever accounts the caller passes.
C23_PoliciesAgreeWithoutOptionalSlots ==
  (Called /\ NoOptionalSlot)
    => /\ ResultUnder(TRUE) = ResultUnder(FALSE)
       /\ result = ResultUnder(ixRenderer.defaultOptionalAccounts)
       /\ ~result.threw

\* the omit policy, two required slots, one of them with a known address
\* the caller leaves out
C23_Witness ==
  /\ Called /\ NoOptionalSlot /\ OmitPolicy
  /\ Len(SlotList) = 2 /\ Len(result.fixedKeys) = 2
  /\ \E i \in Slots : SlotKnown(i) /\ ~Supplied(i)
  /\ \E i \in Slots : Supplied(i)

\* the properties the emitted accounts type makes required
RequiredProps ==
  {ixCode.accountsType[k].propName :
     k \in {n \in DOMAIN ixCode.accountsType : ~ixCode.accountsType[n].optional}}

AllRequiredSupplied == \A p \in RequiredProps : call.accounts[p] # UndefinedKey

\* C24: under either policy the emitted key list reads a slot without a
\* fallback and without a presence guard only when the accounts type makes
\* its property required; so when the caller supplies every required
\* property, every entry of a key list that was built has a defined pubkey.
C24_BuiltKeysAreDefined ==
  /\ pc \in {"ixRendered", "ixCalled"}
       => /\ \A k \in DOMAIN ixCode.keys.inside :
               ixCode.keys.inside[k].pubkey.dflt = "none"
                 => ixCode.keys.inside[k].pubkey.prop \in RequiredProps
          /\ \A k \in DOMAIN ixCode.keys.push :
               LET st == ixCode.keys.push[k]
               IN  st.meta.pubkey.dflt = "none"
                     => \/ st.guarded /\ st.guard = st.meta.pubkey.prop
                        \/ st.meta.pubkey.prop \in RequiredProps
  /\ (Called /\ ~result.threw /\ AllRequiredSupplied)
       => \A k \in DOMAIN result.keys : result.keys[k].pubkey # UndefinedKey

\* a required slot supplied next to a slot the caller leaves out
C24_Witness ==
  /\ Called /\ ~result.threw /\ AllRequiredSupplied
  /\ RequiredProps # {}
  /\ \E i \in Slots : ~Supplied(i)
  /\ Len(result.keys) >= 2
  /\ \A k \in DOMAIN result.keys : result.keys[k].pubkey # UndefinedKey

\* whether an emitted object literal has the entry accountDiscriminator
CarriesDiscriminator(value) ==
  \E k \in DOMAIN value.entries :
    value.entries[k].discriminator /\ value.entries[k].key = AccountDiscriminatorKey

\* C25: in one account pass the discriminator constant is declared, the
\* serialized value has accountDiscriminator, the value byteSize(args)
\* measures (for a fixable account) has accountDiscriminator, and the
\* struct descriptor gets a discriminator field, each exactly when
\* hasImplicitDiscriminator is set; the args type never has it.
C25_DiscriminatorPresenceIsConsistent ==
  pc = "accRendered"
    => /\ accCode.discriminatorVar.declared = accRenderer.hasImplicitDiscriminator
       /\ CarriesDiscriminator(accCode.serializeValue)
            = accRenderer.hasImplicitDiscriminator
       /\ accCode.byteSize.byteSizeOfArgs
            => CarriesDiscriminator(accCode.byteSize.byteSizeValue)
                 = accRenderer.hasImplicitDiscriminator
       /\ accCode.beet.discriminatorField = accRenderer.hasImplicitDiscriminator
       /\ \A k \in DOMAIN accCode.argsType :
            accCode.argsType[k].name # AccountDiscriminatorKey
       /\ Len(accCode.argsType) = Len(NonPaddingNames(account.fields))

\* a fixable account with an implicit discriminator and a padding field
C25_Witness ==
  /\ pc = "accRendered" /\ accRenderer.hasImplicitDiscriminator
  /\ accCode.byteSize.byteSizeOfArgs
  /\ accRenderer.paddingField.present
  /\ CarriesDiscriminator(accCode.byteSize.byteSizeValue)
  /\ CarriesDiscriminator(accCode.serializeValue)

\* the fields handed to the struct descriptor, the padding field left out
StructFieldNames ==
  SelectSeq(accCode.beet.fields,
            LAMBDA name : ~(accRenderer.paddingField.present
                            /\ name = accRenderer.paddingField.name))

\* C26 as claimed: the non-padding fields of an account have the same names
\* in the args type, in the class and in the struct descriptor, and so have
\* the arguments of an instruction in its args type and its struct
\* descriptor.
C26_FieldNamesAgreeWithStruct ==
  /\ pc = "accRendered"
       => /\ NamesOf(accCode.argsType) = StructFieldNames
          /\ NamesOf(accCode.dataClass.constructorArgs) = StructFieldNames
  /\ pc = "ixRendered"
       => NamesOf(ixCode.argsType) = ixCode.dataStruct.fields

====
